---- MODULE Spec2Model ----
(***************************************************************************)
(* Model of src/collapse.rs: collapsing the two mates of a paired-end      *)
(* read into one fragment record.                                          *)
(*                                                                         *)
(* A String is a sequence of one-character strings.  An Option<String> is  *)
(* a sequence of length 0 (None) or 1 (Some(s)).  A Record is a TLA+       *)
(* record with the fields of records::Record.  One behaviour is one call   *)
(* of collapse_to_fragment on a two-element vector.                        *)
(***************************************************************************)
EXTENDS Integers, Sequences, FiniteSets, TLC

\* Largest genomic coordinate of an input record.
MaxPos == 4

Pos == 0..MaxPos

\* Call symbols of the input strings, the padding symbol "x" among them.
Letters == <<"Z", "z", "H", "h", "x", "Y", "y", "N">>

\* The input call string of length n that starts seed places into Letters.
\* Consecutive characters differ, and strings of different seeds differ at
\* every index, so every character of an output shows where it came from.
CallString(seed, n) == [i \in 1..n |-> Letters[((i + seed) % Len(Letters)) + 1]]

\* Where the call strings of one input pair start in Letters.
Shifts == {0, 3}

\* How far the length of an input call string is from end - start.
CpgDeltas == {-1, 0, 1}
GpcDeltas == {-1, 0}

Chrs == {"chr1", "chr2"}
Strands == {0, 1}

None == <<>>
Some(s) == <<s>>
is_none(o) == Len(o) = 0
unwrap(o) == o[1]

\* Record::new
RecordNew(chr, start, end, name, read_number, bs_strand, cpg, gpc) ==
    [chr |-> chr, start |-> start, end |-> end, name |-> name,
     read_number |-> read_number, bs_strand |-> bs_strand,
     cpg |-> cpg, gpc |-> gpc]

Min(x, y) == IF x <= y THEN x ELSE y
Max(x, y) == IF x >= y THEN x ELSE y

\* The padding of a gap: diff repetitions of "x".
Pad(diff) == [i \in 1..diff |-> "x"]

\* s[..n] and s[n..] of Rust; both panic when n > s.len().
SliceInRange(s, n) == n <= Len(s)
SliceTo(s, n) == SubSeq(s, 1, n)
SliceFrom(s, n) == SubSeq(s, n + 1, Len(s))

\* reads:  the argument of collapse_to_fragment
\* pc:     where the call is: "call", "dovetail", "canonical", "validate",
\*         and at its end "returned", "exited" (quit::with_code) or "panicked"
\* r1, r2: the clones of read 1 and read 2
\* cand:   new_start, new_end, new_cpg and new_gpc of the running merger
\* result: the vector returned
\* status: the exit status of the process, 0 while it runs
\* diag:   the reads printed to stderr
\* path:   the branches the call has taken
VARIABLES reads, pc, r1, r2, cand, result, status, diag, path

vars == <<reads, pc, r1, r2, cand, result, status, diag, path>>

NoCand == [new_start |-> 0, new_end |-> 0, new_cpg |-> <<>>, new_gpc |-> None]

----------------------------------------------------------------------------
\* collapse_to_fragment: the resolver and the classifier

\* Variant: the first read number is tested against 2.
mate_indices_swapped(rs) == IF rs[1].read_number = 1 THEN <<2, 1>> ELSE <<1, 2>>

\* Variant: the vector is taken to be in mate order.
mate_indices_first(rs) == <<1, 2>>

\* Which element of reads is read 1 and which is read 2 (1-based).
mate_indices(rs) == IF rs[1].read_number = 1 THEN <<1, 2>> ELSE <<2, 1>>

\* Variant: equal ends are not a containment.
classify_strict_end(a, b) ==
    IF a.chr # b.chr THEN "passthrough"
    ELSE IF a.start > b.start THEN "dovetail"
    ELSE IF a.end > b.end THEN "containment" ELSE "canonical"

\* The branch collapse_to_fragment takes.
classify(a, b) ==
    IF a.chr # b.chr THEN "passthrough"
    ELSE IF a.start > b.start THEN "dovetail"
    ELSE IF a.start < b.start
         THEN (IF a.end >= b.end THEN "containment" ELSE "canonical")
         ELSE (IF a.end >= b.end THEN "containment" ELSE "canonical")

\* Variant: the read number is left as it is.
truncate_keeps_number(a) == a

\* r1.set_read_number(0); vec!(r1)
truncate(a) == [a EXCEPT !.read_number = 0]

----------------------------------------------------------------------------
\* collapse_dovetail

dovetail_overlaps(a, b) == b.end > a.start
dovetail_extends(a, b) == b.end > a.end
dovetail_diff(a, b) == IF dovetail_overlaps(a, b) THEN a.start - b.start
                       ELSE a.start - b.end

\* Variant: the tail of read 2 starts one character late.
dovetail_tmp_start_off_by_one(a, b) == dovetail_diff(a, b) + Len(a.cpg) + 1

dovetail_tmp_start(a, b) == dovetail_diff(a, b) + Len(a.cpg)

dovetail_new_start(a, b) == b.start

\* Variant: the end is never moved to the end of read 2.
dovetail_new_end_fixed(a, b) == a.end

dovetail_new_end(a, b) ==
    IF dovetail_overlaps(a, b) /\ dovetail_extends(a, b) THEN b.end ELSE a.end

\* A slice out of range or an unwrap of None: the call panics.
dovetail_panics(a, b) ==
    IF dovetail_overlaps(a, b)
    THEN IF ~SliceInRange(b.cpg, dovetail_diff(a, b)) THEN TRUE
         ELSE IF ~is_none(a.gpc) /\ is_none(b.gpc) THEN TRUE
         ELSE IF ~is_none(a.gpc) /\ ~SliceInRange(unwrap(b.gpc), dovetail_diff(a, b))
              THEN TRUE
         ELSE IF ~dovetail_extends(a, b) THEN FALSE
         ELSE IF ~SliceInRange(b.cpg, dovetail_tmp_start(a, b)) THEN TRUE
         ELSE IF is_none(a.gpc) THEN FALSE
         ELSE ~SliceInRange(unwrap(b.gpc), dovetail_tmp_start(a, b))
    ELSE ~is_none(a.gpc) /\ is_none(b.gpc)

dovetail_cpg(a, b) ==
    IF dovetail_overlaps(a, b)
    THEN LET new_cpg == SliceTo(b.cpg, dovetail_diff(a, b)) \o a.cpg
         IN  IF dovetail_extends(a, b)
             THEN new_cpg \o SliceFrom(b.cpg, dovetail_tmp_start(a, b))
             ELSE new_cpg
    ELSE b.cpg \o Pad(dovetail_diff(a, b)) \o a.cpg

\* Variant: the tail of read 2's gpc is found from the length of read 1's gpc.
dovetail_gpc_own_len(a, b) ==
    IF is_none(a.gpc) THEN None
    ELSE IF dovetail_overlaps(a, b)
    THEN LET r1_gpc == unwrap(a.gpc)
             r2_gpc == unwrap(b.gpc)
             new_gpc == SliceTo(r2_gpc, dovetail_diff(a, b)) \o r1_gpc
         IN  IF dovetail_extends(a, b)
             THEN Some(new_gpc \o SliceFrom(r2_gpc, dovetail_diff(a, b) + Len(r1_gpc)))
             ELSE Some(new_gpc)
    ELSE Some(unwrap(b.gpc) \o Pad(dovetail_diff(a, b)) \o unwrap(a.gpc))

dovetail_gpc(a, b) ==
    IF is_none(a.gpc) THEN None
    ELSE IF dovetail_overlaps(a, b)
    THEN LET r1_gpc == unwrap(a.gpc)
             r2_gpc == unwrap(b.gpc)
             new_gpc == SliceTo(r2_gpc, dovetail_diff(a, b)) \o r1_gpc
         IN  IF dovetail_extends(a, b)
             THEN Some(new_gpc \o SliceFrom(r2_gpc, dovetail_tmp_start(a, b)))
             ELSE Some(new_gpc)
    ELSE Some(unwrap(b.gpc) \o Pad(dovetail_diff(a, b)) \o unwrap(a.gpc))

dovetail_merge(a, b) ==
    [new_start |-> dovetail_new_start(a, b), new_end |-> dovetail_new_end(a, b),
     new_cpg |-> dovetail_cpg(a, b), new_gpc |-> dovetail_gpc(a, b)]

----------------------------------------------------------------------------
\* collapse_canonical_proper_pair

canonical_gap(a, b) == b.start > a.end
canonical_diff(a, b) == IF canonical_gap(a, b) THEN b.start - a.end
                        ELSE a.end - b.start

canonical_new_start(a, b) == a.start
canonical_new_end(a, b) == b.end

canonical_panics(a, b) ==
    IF canonical_gap(a, b)
    THEN ~is_none(a.gpc) /\ is_none(b.gpc)
    ELSE IF ~SliceInRange(b.cpg, canonical_diff(a, b)) THEN TRUE
         ELSE IF is_none(a.gpc) THEN FALSE
         ELSE IF is_none(b.gpc) THEN TRUE
         ELSE ~SliceInRange(unwrap(b.gpc), canonical_diff(a, b))

\* Variant: in the overlap the calls of read 2 are kept.
canonical_cpg_mate2_wins(a, b) ==
    IF canonical_gap(a, b)
    THEN a.cpg \o Pad(canonical_diff(a, b)) \o b.cpg
    ELSE SliceTo(a.cpg, Len(a.cpg) - Min(canonical_diff(a, b), Len(a.cpg))) \o b.cpg

canonical_cpg(a, b) ==
    IF canonical_gap(a, b)
    THEN a.cpg \o Pad(canonical_diff(a, b)) \o b.cpg
    ELSE a.cpg \o SliceFrom(b.cpg, canonical_diff(a, b))

\* Variant: in the overlap the gpc of read 2 is appended whole.
canonical_gpc_unsliced(a, b) ==
    IF is_none(a.gpc) THEN None
    ELSE IF canonical_gap(a, b)
    THEN Some(unwrap(a.gpc) \o Pad(canonical_diff(a, b)) \o unwrap(b.gpc))
    ELSE Some(unwrap(a.gpc) \o unwrap(b.gpc))

canonical_gpc(a, b) ==
    IF is_none(a.gpc) THEN None
    ELSE IF canonical_gap(a, b)
    THEN Some(unwrap(a.gpc) \o Pad(canonical_diff(a, b)) \o unwrap(b.gpc))
    ELSE Some(unwrap(a.gpc) \o SliceFrom(unwrap(b.gpc), canonical_diff(a, b)))

canonical_merge(a, b) ==
    [new_start |-> canonical_new_start(a, b), new_end |-> canonical_new_end(a, b),
     new_cpg |-> canonical_cpg(a, b), new_gpc |-> canonical_gpc(a, b)]

----------------------------------------------------------------------------
\* The validator at the end of both mergers, and the record they build

\* Variant: only a string longer than the interval is malformed.
malformed_longer_only(c) == c.new_end - c.new_start < Len(c.new_cpg)

malformed(c) == c.new_end - c.new_start # Len(c.new_cpg)

merged_record(a, c) ==
    RecordNew(a.chr, c.new_start, c.new_end, a.name, 0, a.bs_strand,
              c.new_cpg, c.new_gpc)

----------------------------------------------------------------------------
\* The outcome of a whole call, as a function of the input vector

Outcome(p, res, st, dg) == [pc |-> p, result |-> res, status |-> st, diag |-> dg]

merger_outcome(a, b, panics, c) ==
    IF panics THEN Outcome("panicked", <<>>, 101, <<>>)
    ELSE IF malformed(c) THEN Outcome("exited", <<>>, 1, <<a, b>>)
    ELSE Outcome("returned", <<merged_record(a, c)>>, 0, <<>>)

collapse_to_fragment(rs) ==
    LET idx == mate_indices(rs)
        a == rs[idx[1]]
        b == rs[idx[2]]
        branch == classify(a, b)
    IN  CASE branch = "passthrough" -> Outcome("returned", <<a, b>>, 0, <<>>)
          [] branch = "containment" -> Outcome("returned", <<truncate(a)>>, 0, <<>>)
          [] branch = "dovetail" ->
                merger_outcome(a, b, dovetail_panics(a, b), dovetail_merge(a, b))
          [] branch = "canonical" ->
                merger_outcome(a, b, canonical_panics(a, b), canonical_merge(a, b))

----------------------------------------------------------------------------
\* The state machine of one call

\* An input record: any interval with end > start within Pos, a cpg whose
\* length is off by d from the interval, and no gpc or a gpc whose length is
\* off by gd.  At every index the four strings of a pair differ.
InputRecord(chr, s, e, rn, bs, d, hasGpc, gd, k) ==
    RecordNew(chr, s, e, "frag", rn, bs,
              CallString(k + (IF rn = 1 THEN 0 ELSE 4), (e - s) + d),
              IF hasGpc
              THEN Some(CallString(k + (IF rn = 1 THEN 2 ELSE 6), (e - s) + gd))
              ELSE None)

\* The call starts with a vector of two records of one fragment, numbered
\* 1 and 2, in either order.  r1, r2 and cand are not yet assigned.
Init ==
    /\ \E s1 \in Pos, e1 \in Pos, s2 \in Pos, e2 \in Pos,
          d1 \in CpgDeltas, d2 \in CpgDeltas,
          h1 \in BOOLEAN, h2 \in BOOLEAN, g1 \in GpcDeltas, g2 \in GpcDeltas,
          c2 \in Chrs, b2 \in Strands, k \in Shifts, first \in {1, 2} :
          /\ e1 > s1
          /\ e2 > s2
          /\ LET m1 == InputRecord("chr1", s1, e1, 1, 0, d1, h1, g1, k)
                 m2 == InputRecord(c2, s2, e2, 2, b2, d2, h2, g2, k)
             IN  /\ reads = IF first = 1 THEN <<m1, m2>> ELSE <<m2, m1>>
                 /\ r1 = reads[1]
                 /\ r2 = reads[2]
    /\ pc = "call"
    /\ cand = NoCand
    /\ result = <<>>
    /\ status = 0
    /\ diag = <<>>
    /\ path = <<>>

\* lines 6-9: the resolver; every branch below starts with it
Resolved ==
    /\ pc = "call"
    /\ r1' = reads[mate_indices(reads)[1]]
    /\ r2' = reads[mate_indices(reads)[2]]

ReturnPassthrough ==
    /\ Resolved
    /\ classify(r1', r2') = "passthrough"
    /\ result' = <<r1', r2'>>
    /\ pc' = "returned"
    /\ path' = Append(path, "passthrough")
    /\ UNCHANGED <<reads, cand, status, diag>>

ReturnContainment ==
    /\ Resolved
    /\ classify(r1', r2') = "containment"
    /\ result' = <<truncate(r1')>>
    /\ pc' = "returned"
    /\ path' = Append(path, "containment")
    /\ UNCHANGED <<reads, cand, status, diag>>

CallDovetail ==
    /\ Resolved
    /\ classify(r1', r2') = "dovetail"
    /\ pc' = "dovetail"
    /\ path' = Append(path, "dovetail")
    /\ UNCHANGED <<reads, cand, result, status, diag>>

CallCanonical ==
    /\ Resolved
    /\ classify(r1', r2') = "canonical"
    /\ pc' = "canonical"
    /\ path' = Append(path, "canonical")
    /\ UNCHANGED <<reads, cand, result, status, diag>>

\* an index out of range or unwrap of None unwinds the call
Panic ==
    /\ pc \in {"dovetail", "canonical"}
    /\ IF pc = "dovetail" THEN dovetail_panics(r1, r2) ELSE canonical_panics(r1, r2)
    /\ pc' = "panicked"
    /\ status' = 101
    /\ path' = Append(path, "panic")
    /\ UNCHANGED <<reads, r1, r2, cand, result, diag>>

MergeDovetail ==
    /\ pc = "dovetail"
    /\ ~dovetail_panics(r1, r2)
    /\ cand' = dovetail_merge(r1, r2)
    /\ pc' = "validate"
    /\ path' = Append(path, "merged")
    /\ UNCHANGED <<reads, r1, r2, result, status, diag>>

MergeCanonical ==
    /\ pc = "canonical"
    /\ ~canonical_panics(r1, r2)
    /\ cand' = canonical_merge(r1, r2)
    /\ pc' = "validate"
    /\ path' = Append(path, "merged")
    /\ UNCHANGED <<reads, r1, r2, result, status, diag>>

\* eprintln! of both reads, quit::with_code(1)
ValidateFatal ==
    /\ pc = "validate"
    /\ malformed(cand)
    /\ diag' = <<r1, r2>>
    /\ status' = 1
    /\ pc' = "exited"
    /\ path' = Append(path, "validator")
    /\ UNCHANGED <<reads, r1, r2, cand, result>>

ValidateReturn ==
    /\ pc = "validate"
    /\ ~malformed(cand)
    /\ result' = <<merged_record(r1, cand)>>
    /\ pc' = "returned"
    /\ path' = Append(path, "validator")
    /\ UNCHANGED <<reads, r1, r2, cand, status, diag>>

Next ==
    \/ ReturnPassthrough
    \/ ReturnContainment
    \/ CallDovetail
    \/ CallCanonical
    \/ Panic
    \/ MergeDovetail
    \/ MergeCanonical
    \/ ValidateFatal
    \/ ValidateReturn

Spec == Init /\ [][Next]_vars

----------------------------------------------------------------------------
\* Vocabulary of the properties, in terms of the input vector only

Mate1 == IF reads[1].read_number = 1 THEN reads[1] ELSE reads[2]
Mate2 == IF reads[1].read_number = 1 THEN reads[2] ELSE reads[1]

Done == pc \in {"returned", "exited", "panicked"}
Collapsed == pc = "returned" /\ Len(result) = 1
Out == result[1]

CpgMatches(r) == r.end > r.start /\ Len(r.cpg) = r.end - r.start
GpcMatches(r) == is_none(r.gpc) \/ Len(unwrap(r.gpc)) = Len(r.cpg)
WellFormedPair ==
    /\ CpgMatches(Mate1) /\ GpcMatches(Mate1)
    /\ CpgMatches(Mate2) /\ GpcMatches(Mate2)
    /\ is_none(Mate1.gpc) <=> is_none(Mate2.gpc)

SameChr == Mate1.chr = Mate2.chr
Contains == Mate1.start <= Mate2.start /\ Mate1.end >= Mate2.end
Dovetails == Mate1.start > Mate2.start
\* the pair goes to one of the two mergers
Handled == SameChr /\ ~Contains

SubCase ==
    IF Dovetails
    THEN IF Mate2.end > Mate1.start
         THEN (IF Mate2.end > Mate1.end THEN "dovetail_overlap_ext"
               ELSE "dovetail_overlap")
         ELSE "dovetail_gap"
    ELSE IF Mate2.start > Mate1.end THEN "canonical_gap" ELSE "canonical_overlap"

InInterval(p, r) == r.start <= p /\ p < r.end

----------------------------------------------------------------------------
\* Properties

\* C1: length invariant.  When both mates are well formed (end > start, cpg
\* as long as the interval, gpc as long as cpg, gpc on both mates or on
\* neither), the single record of a collapsed fragment has a cpg as long as
\* its interval, and a gpc, if present, as long as its cpg.
C1_LengthInvariant ==
    (Collapsed /\ WellFormedPair) =>
        /\ Len(Out.cpg) = Out.end - Out.start
        /\ ~is_none(Out.gpc) => Len(unwrap(Out.gpc)) = Len(Out.cpg)

C1_Witness ==
    /\ Collapsed /\ WellFormedPair
    /\ SubCase = "canonical_overlap" /\ Handled
    /\ ~is_none(Out.gpc)
    /\ Mate1.end > Mate2.start

\* C3: containment.  On one chromosome with mate1.start <= mate2.start and
\* mate1.end >= mate2.end the call returns exactly mate1 with read_number 0,
\* whatever mate2 holds, and neither a merger nor the validator runs.
C3_Containment ==
    (pc # "call" /\ SameChr /\ Contains) =>
        /\ pc = "returned"
        /\ result = <<[Mate1 EXCEPT !.read_number = 0]>>
        /\ path = <<"containment">>

C3_Witness ==
    /\ pc = "returned" /\ SameChr /\ Contains
    /\ Mate1.start = Mate2.start /\ Mate1.end = Mate2.end
    /\ ~CpgMatches(Mate2) /\ ~CpgMatches(Mate1)
    /\ reads[1].read_number = 2

\* C4: cross-chromosome passthrough.  When the chromosomes differ the call
\* returns the two inputs unchanged, the one with read_number 1 first,
\* whatever the intervals and the input order, and neither a merger nor the
\* validator runs.
C4_Passthrough ==
    (pc # "call" /\ ~SameChr) =>
        /\ pc = "returned"
        /\ result = <<Mate1, Mate2>>
        /\ result[1].read_number = 1
        /\ path = <<"passthrough">>

C4_Witness ==
    /\ pc = "returned" /\ ~SameChr
    /\ reads[1].read_number = 2
    /\ Mate1.start > Mate2.start /\ Mate2.end > Mate1.end

\* C5: output contract.  A call that returns gives either two records, and
\* does so exactly when the chromosomes differ, or one record with
\* read_number 0 and the chr, name and bs_strand of mate1; never an empty
\* result and never a single record numbered 1 or 2.
C5_OutputContract ==
    pc = "returned" =>
        /\ Len(result) \in {1, 2}
        /\ Len(result) = 2 <=> ~SameChr
        /\ Len(result) = 1 =>
              /\ Out.read_number = 0
              /\ Out.chr = Mate1.chr
              /\ Out.name = Mate1.name
              /\ Out.bs_strand = Mate1.bs_strand

C5_Witness ==
    /\ Collapsed
    /\ Mate2.bs_strand # Mate1.bs_strand
    /\ Contains
    /\ reads[1].read_number = 2

MismatchShows ==
    CASE SubCase = "dovetail_overlap" -> ~CpgMatches(Mate1)
      [] SubCase = "dovetail_overlap_ext" -> ~CpgMatches(Mate2)
      [] OTHER -> TRUE

C6_OrderIrrelevant ==
    Done => Outcome(pc, result, status, diag)
                = collapse_to_fragment(<<reads[2], reads[1]>>)

C6_Witness ==
    /\ Collapsed /\ Handled
    /\ reads[1].read_number = 2
    /\ Mate1.bs_strand # Mate2.bs_strand
    /\ Len(Out.cpg) > Len(Mate1.cpg)

\* The merged string of a sub-case, from the string s1 of mate1 and the
\* string s2 of mate2: the slices, their order and the padding.
Splice(s1, s2) ==
    CASE SubCase = "dovetail_overlap" ->
            SubSeq(s2, 1, Mate1.start - Mate2.start) \o s1
      [] SubCase = "dovetail_overlap_ext" ->
            SubSeq(s2, 1, Mate1.start - Mate2.start) \o s1
              \o SubSeq(s2, (Mate1.start - Mate2.start) + Len(Mate1.cpg) + 1, Len(s2))
      [] SubCase = "dovetail_gap" ->
            s2 \o [i \in 1..(Mate1.start - Mate2.end) |-> "x"] \o s1
      [] SubCase = "canonical_gap" ->
            s1 \o [i \in 1..(Mate2.start - Mate1.end) |-> "x"] \o s2
      [] SubCase = "canonical_overlap" ->
            s1 \o SubSeq(s2, (Mate1.end - Mate2.start) + 1, Len(s2))

\* C7: gpc is merged as cpg is.  In a record a merger returns, gpc is absent
\* exactly when mate1 has none, and otherwise it is built from the gpc
\* strings of the mates with the slices, order and padding that build cpg
\* from their cpg strings.
C7_GpcMergedAsCpg ==
    (Collapsed /\ Handled) =>
        /\ is_none(Out.gpc) <=> is_none(Mate1.gpc)
        /\ Out.cpg = Splice(Mate1.cpg, Mate2.cpg)
        /\ ~is_none(Mate1.gpc) =>
              unwrap(Out.gpc) = Splice(unwrap(Mate1.gpc), unwrap(Mate2.gpc))

C7_Witness ==
    /\ Collapsed /\ Handled
    /\ SubCase = "dovetail_overlap_ext"
    /\ ~is_none(Mate1.gpc)
    /\ Len(unwrap(Mate1.gpc)) # Len(Mate1.cpg)
    /\ Len(unwrap(Out.gpc)) > 0

\* The call of genomic position p in the fragment: mate1's if p lies in
\* mate1, else mate2's if p lies in mate2, else the gap symbol.
CallAt(p) ==
    IF InInterval(p, Mate1) THEN Mate1.cpg[(p - Mate1.start) + 1]
    ELSE IF InInterval(p, Mate2) THEN Mate2.cpg[(p - Mate2.start) + 1]
    ELSE "x"

\* C8: mate 1 wins position by position.  For a pair on one chromosome whose
\* cpg strings are as long as their intervals, every position of the
\* collapsed record holds mate1's call where mate1 covers it, else mate2's
\* where mate2 covers it, else "x".
C8_Mate1Wins ==
    (Collapsed /\ SameChr /\ CpgMatches(Mate1) /\ CpgMatches(Mate2)) =>
        \A p \in Out.start..(Out.end - 1) :
            /\ (p - Out.start) + 1 \in DOMAIN Out.cpg
            /\ Out.cpg[(p - Out.start) + 1] = CallAt(p)

C8_Witness ==
    /\ Collapsed /\ SameChr /\ CpgMatches(Mate1) /\ CpgMatches(Mate2)
    /\ SubCase = "dovetail_overlap_ext"
    /\ Dovetails
    /\ Mate2.end > Mate1.end
    /\ Out.end - Out.start > Len(Mate1.cpg) + 1

\* C9: well-formed input never fails.  With both mates well formed and gpc
\* on both or on neither, the call never exits through the validator and
\* never panics on a slice or an unwrap, and it goes on until it returns.
C9_WellFormedNeverFails ==
    WellFormedPair =>
        /\ pc \notin {"exited", "panicked"}
        /\ status = 0
        /\ diag = <<>>
        /\ pc # "returned" => ENABLED Next

C9_Witness ==
    /\ WellFormedPair
    /\ Collapsed /\ Handled
    /\ SubCase = "dovetail_overlap_ext"
    /\ ~is_none(Mate1.gpc)
    /\ path = <<"dovetail", "merged", "validator">>

\* C10: the collapsed interval is the hull of the mates.  The single record
\* returned for a pair on one chromosome starts at the smaller start and
\* ends at the larger end.
C10_Hull ==
    (Collapsed /\ SameChr) =>
        /\ Out.start = Min(Mate1.start, Mate2.start)
        /\ Out.end = Max(Mate1.end, Mate2.end)

C10_Witness ==
    /\ Collapsed /\ SameChr
    /\ Mate2.start < Mate1.start
    /\ Mate2.end > Mate1.end
    /\ Out.start = Mate2.start
    /\ Out.end = Mate2.end

====
